---- MODULE Spec2Model ----
(***************************************************************************)
(* Model of samplecode/SampleClipDrawMatch.cpp: the ClipDrawMatch slide.   *)
(*                                                                         *)
(* Scalars are fixed point with SK_Scalar1 units per pixel, so that        *)
(* 100.5f, 299.5f and the half-pixel offsets produced by the            *)
(* interpolator on a 500 ms frame clock are integers.  The drawing surface *)
(* is observed at a lattice of probe pixels; a pixel belongs to a shape    *)
(* when its centre does (coverage by point sampling).                      *)
(***************************************************************************)
EXTENDS Integers, Sequences, FiniteSets, TLC

(***************************************************************************)
(* Units and bounds                                                        *)
(***************************************************************************)
SK_Scalar1 == 2

DeviceW == 400
DeviceH == 400
MaxNow == 5500

TickMs == 1000 \div SK_Scalar1

\* probe pixels (column / row indices)
PX == {50, 100, 101, 150, 199, 250, 299, 350}
Probes == {p \in PX \X PX : p[1] < DeviceW /\ p[2] < DeviceH}
Centre(p) == <<SK_Scalar1 * p[1] + SK_Scalar1 \div 2, SK_Scalar1 * p[2] + SK_Scalar1 \div 2>>

(***************************************************************************)
(* enum Geometry                                                           *)
(***************************************************************************)
kRect_Geometry == 0
kRRect_Geometry == 1
kCircle_Geometry == 2
kConvexPath_Geometry == 3
kConcavePath_Geometry == 4
kRectAndRect_Geometry == 5
kRectAndRRect_Geometry == 6
kRectAndConvex_Geometry == 7
kRectAndConcave_Geometry == 8
Geometry == kRect_Geometry .. kRectAndConcave_Geometry

kMin == 201
kMid == 400
kMax == 599

SK_ColorRED == "red"
SK_ColorBLACK == "black"
Colors == {"white", SK_ColorRED, SK_ColorBLACK}

kReplace_Op == "replace"
kIntersect_Op == "intersect"

(***************************************************************************)
(* Shapes: SkRect, SkRRect, SkPath                                         *)
(***************************************************************************)
Shape(type, rect, rad, pts) == [type |-> type, rect |-> rect, rad |-> rad, pts |-> pts]
NoShape == Shape("none", <<0, 0, 0, 0>>, <<0, 0>>, <<>>)

MakeLTRB(l, t, r, b) == <<l, t, r, b>>
MakeWH(w, h) == <<0, 0, w, h>>
OffsetRect(r, dx, dy) == <<r[1] + dx, r[2] + dy, r[3] + dx, r[4] + dy>>
OffsetPts(pts, dx, dy) == [i \in 1..Len(pts) |-> <<pts[i][1] + dx, pts[i][2] + dy>>]

RectShape(r) == Shape("rect", r, <<0, 0>>, <<>>)
RRectShape(r, rx, ry) == Shape("rrect", r, <<rx, ry>>, <<>>)
PathShape(pts) == Shape("path", <<0, 0, 0, 0>>, <<0, 0>>, pts)

\* variant: the base rectangle snapped out to whole pixels, [100,100]..[300,300]
create_rect_Snapped(offset) ==
    OffsetRect(MakeLTRB(kMin - 1, kMin - 1, kMax + 1, kMax + 1), offset[1], offset[2])

create_rect(offset) ==
    OffsetRect(MakeLTRB(kMin, kMin, kMax, kMax), offset[1], offset[2])

create_rrect(offset) ==
    RRectShape(create_rect(offset), 10 * SK_Scalar1, 10 * SK_Scalar1)

create_circle(offset) ==
    LET r == create_rect(offset)
    IN  RRectShape(r, (r[3] - r[1]) \div 2, (r[4] - r[2]) \div 2)

create_convex_path(offset) ==
    PathShape(OffsetPts(<< <<kMin, kMin>>, <<kMax, kMax>>, <<kMin, kMax>> >>,
                        offset[1], offset[2]))

create_concave_path(offset) ==
    PathShape(OffsetPts(<< <<kMin, kMin>>, <<kMid, 105 * SK_Scalar1>>,
                           <<kMax, kMin>>, <<295 * SK_Scalar1, kMid>>,
                           <<kMax, kMax>>, <<kMid, 295 * SK_Scalar1>>,
                           <<kMin, kMax>>, <<105 * SK_Scalar1, kMid>> >>,
                        offset[1], offset[2]))

(***************************************************************************)
(* Coverage: which probe pixels a shape contains                           *)
(***************************************************************************)
InRect(r, q) == r[1] <= q[1] /\ q[1] < r[3] /\ r[2] <= q[2] /\ q[2] < r[4]

Clamp(v, lo, hi) == IF v < lo THEN lo ELSE IF v > hi THEN hi ELSE v

InRRect(r, rad, q) ==
    /\ InRect(r, q)
    /\ LET dx == q[1] - Clamp(q[1], r[1] + rad[1], r[3] - rad[1])
           dy == q[2] - Clamp(q[2], r[2] + rad[2], r[4] - rad[2])
       IN  IF rad[1] = rad[2]
           THEN dx * dx + dy * dy <= rad[1] * rad[1]
           ELSE dx * dx * rad[2] * rad[2] + dy * dy * rad[1] * rad[1]
                    <= rad[1] * rad[1] * rad[2] * rad[2]

\* edge i of a closed contour crosses the ray going right from q
Crosses(pts, i, q) ==
    LET a == pts[i]
        b == pts[(i % Len(pts)) + 1]
        dy == b[2] - a[2]
        lhs == (q[1] - a[1]) * dy
        rhs == (q[2] - a[2]) * (b[1] - a[1])
    IN  /\ (a[2] > q[2]) # (b[2] > q[2])
        /\ IF dy > 0 THEN lhs < rhs ELSE lhs > rhs

InPath(pts, q) == Cardinality({i \in 1..Len(pts) : Crosses(pts, i, q)}) % 2 = 1

Contains(shape, q) ==
    CASE shape.type = "rect" -> InRect(shape.rect, q)
      [] shape.type = "rrect" -> InRRect(shape.rect, shape.rad, q)
      [] shape.type = "path" -> InPath(shape.pts, q)
      [] OTHER -> FALSE

Region(shape) == {p \in Probes : Contains(shape, Centre(p))}
DeviceRegion == Probes

(***************************************************************************)
(* SkCanvas: save stack, clip, device pixels.  A drawing context cx is     *)
(*   clip   - the probe pixels of the clip in force                        *)
(*   stack  - the clips saved by save(); the save count is Len(stack) + 1  *)
(*   pixels - the colour of each probe pixel                               *)
(*   calls  - the canvas calls made so far in this frame                   *)
(*   passes - one record per finished pass of this frame                   *)
(***************************************************************************)
Call(fn, shape, op, aa, color, touched) ==
    [fn |-> fn, shape |-> shape, op |-> op, aa |-> aa, color |-> color, touched |-> touched]

getSaveCount(cx) == Len(cx.stack) + 1

save(cx) ==
    [cx EXCEPT !.stack = Append(@, cx.clip),
               !.calls = Append(@, Call("save", NoShape, "none", FALSE, "none", {}))]

restoreToCount(cx, count) ==
    LET n == IF count < 1 THEN 1 ELSE count
        logged == [cx EXCEPT !.calls = Append(@, Call("restoreToCount", NoShape, "none", FALSE, "none", {}))]
    IN  IF n >= getSaveCount(cx)
        THEN logged
        ELSE [logged EXCEPT !.clip = cx.stack[n], !.stack = SubSeq(cx.stack, 1, n - 1)]

ClipFn(shape) ==
    CASE shape.type = "rect" -> "clipRect"
      [] shape.type = "rrect" -> "clipRRect"
      [] OTHER -> "clipPath"

DrawFn(shape) ==
    CASE shape.type = "rect" -> "drawRect"
      [] shape.type = "rrect" -> "drawRRect"
      [] OTHER -> "drawPath"

clipShape(cx, shape, op, aa) ==
    LET r == Region(shape)
        newClip == IF op = kReplace_Op THEN r \cap DeviceRegion ELSE cx.clip \cap r
    IN  [cx EXCEPT !.clip = newClip,
                   !.calls = Append(@, Call(ClipFn(shape), shape, op, aa, "none", {}))]

drawShape(cx, shape, color, aa) ==
    LET touched == cx.clip \cap Region(shape)
    IN  [cx EXCEPT !.pixels = [p \in Probes |-> IF p \in touched THEN color ELSE cx.pixels[p]],
                   !.calls = Append(@, Call(DrawFn(shape), shape, "none", aa, color, touched))]

(***************************************************************************)
(* draw_clipped_geom                                                       *)
(***************************************************************************)
\* variant: every clip call intersects
ClipArg_AlwaysIntersect(shape, op, aa) == [shape |-> shape, op |-> kIntersect_Op, aa |-> aa]

ClipArg(shape, op, aa) == [shape |-> shape, op |-> op, aa |-> aa]

\* variant: the outer rectangle is not moved by (-100, -100)
OuterRect_NoShift(offset) == RectShape(create_rect(offset))

\* SkRect r = create_rect(offset); r.offset(-100.0f, -100.0f);
OuterRect(offset) ==
    RectShape(OffsetRect(create_rect(offset), -100 * SK_Scalar1, -100 * SK_Scalar1))

\* the switch (geom): the clip calls of the clipped pass, in order
ClipCalls(offset, geom, useAA) ==
    CASE geom = kRect_Geometry ->
            << ClipArg(RectShape(create_rect(offset)), kReplace_Op, useAA) >>
      [] geom = kRRect_Geometry ->
            << ClipArg(create_rrect(offset), kReplace_Op, useAA) >>
      [] geom = kCircle_Geometry ->
            << ClipArg(create_circle(offset), kReplace_Op, useAA) >>
      [] geom = kConvexPath_Geometry ->
            << ClipArg(create_convex_path(offset), kReplace_Op, useAA) >>
      [] geom = kConcavePath_Geometry ->
            << ClipArg(create_concave_path(offset), kReplace_Op, useAA) >>
      [] geom = kRectAndRect_Geometry ->
            << ClipArg(OuterRect(offset), kReplace_Op, TRUE),
               ClipArg(RectShape(create_rect(offset)), kIntersect_Op, useAA) >>
      [] geom = kRectAndRRect_Geometry ->
            << ClipArg(OuterRect(offset), kReplace_Op, TRUE),
               ClipArg(create_rrect(offset), kIntersect_Op, useAA) >>
      [] geom = kRectAndConvex_Geometry ->
            << ClipArg(OuterRect(offset), kReplace_Op, TRUE),
               ClipArg(create_convex_path(offset), kIntersect_Op, useAA) >>
      [] geom = kRectAndConcave_Geometry ->
            << ClipArg(OuterRect(offset), kReplace_Op, TRUE),
               ClipArg(create_concave_path(offset), kIntersect_Op, useAA) >>
      [] OTHER -> << >>

RECURSIVE ApplyClips(_, _)
ApplyClips(cx, clips) ==
    IF clips = << >>
    THEN cx
    ELSE ApplyClips(clipShape(cx, Head(clips).shape, Head(clips).op, Head(clips).aa),
                    Tail(clips))

PassRecord(name, in, out, offset, geom, useAA) ==
    [pass |-> name, geom |-> geom, offset |-> offset, useAA |-> useAA,
     depthIn |-> getSaveCount(in), clipIn |-> in.clip,
     depthOut |-> getSaveCount(out), clipOut |-> out.clip,
     calls |-> SubSeq(out.calls, Len(in.calls) + 1, Len(out.calls))]

\* canvas->restoreToCount(count) at the end of the clipped pass
\* variant: the clipped pass returns without restoring
ClippedExit_NoRestore(cx, count) == cx

ClippedExit(cx, count) == restoreToCount(cx, count)

draw_clipped_geom(cx, offset, geom, useAA) ==
    LET count == getSaveCount(cx)
        c1 == save(cx)
        c2 == ApplyClips(c1, ClipCalls(offset, geom, useAA))
        bigR == MakeWH(DeviceW * SK_Scalar1, DeviceH * SK_Scalar1)
        c3 == drawShape(c2, RectShape(bigR), SK_ColorRED, FALSE)
        out == ClippedExit(c3, count)
    IN  [out EXCEPT !.passes = Append(@, PassRecord("clipped", cx, out, offset, geom, useAA))]

(***************************************************************************)
(* draw_normal_geom                                                        *)
(***************************************************************************)
\* variant: the circle case draws the rounded rectangle
NormalShape_CircleAsRRect(offset, geom) ==
    CASE geom \in {kRect_Geometry, kRectAndRect_Geometry} -> RectShape(create_rect(offset))
      [] geom \in {kRRect_Geometry, kRectAndRRect_Geometry, kCircle_Geometry} -> create_rrect(offset)
      [] geom \in {kConvexPath_Geometry, kRectAndConvex_Geometry} -> create_convex_path(offset)
      [] geom \in {kConcavePath_Geometry, kRectAndConcave_Geometry} -> create_concave_path(offset)
      [] OTHER -> NoShape

NormalShape(offset, geom) ==
    CASE geom \in {kRect_Geometry, kRectAndRect_Geometry} -> RectShape(create_rect(offset))
      [] geom \in {kRRect_Geometry, kRectAndRRect_Geometry} -> create_rrect(offset)
      [] geom = kCircle_Geometry -> create_circle(offset)
      [] geom \in {kConvexPath_Geometry, kRectAndConvex_Geometry} -> create_convex_path(offset)
      [] geom \in {kConcavePath_Geometry, kRectAndConcave_Geometry} -> create_concave_path(offset)
      [] OTHER -> NoShape

draw_normal_geom(cx, offset, geom, useAA) ==
    LET out == IF geom \in Geometry
               THEN drawShape(cx, NormalShape(offset, geom), SK_ColorBLACK, useAA)
               ELSE cx
    IN  [out EXCEPT !.passes = Append(@, PassRecord("normal", cx, out, offset, geom, useAA))]

(***************************************************************************)
(* ClipDrawMatchView::drawGeometry (fGeom, fClipFirst passed explicitly)   *)
(***************************************************************************)
\* variant: the clipped pass always runs first
drawGeometry_ClipAlwaysFirst(cx, offset, useAA, geom, clipFirst) ==
    draw_normal_geom(draw_clipped_geom(cx, offset, geom, useAA), offset, geom, useAA)

drawGeometry(cx, offset, useAA, geom, clipFirst) ==
    LET a == IF clipFirst THEN draw_clipped_geom(cx, offset, geom, useAA) ELSE cx
        b == draw_normal_geom(a, offset, geom, useAA)
    IN  IF ~clipFirst THEN draw_clipped_geom(b, offset, geom, useAA) ELSE b

(***************************************************************************)
(* fTrans: the SkInterpolator set up by the constructor.  Times are        *)
(* milliseconds since construction (SkTime::GetMSecs() at construction is  *)
(* taken as 0).                                                            *)
(***************************************************************************)
kRepeatCount == 999

\* variant: the last key frame is set one second late
KeyFrames_LateLast ==
    << [time |-> 1000, values |-> <<0, 0>>],
       [time |-> 2000, values |-> <<0, SK_Scalar1>>],
       [time |-> 3000, values |-> <<SK_Scalar1, SK_Scalar1>>],
       [time |-> 4000, values |-> <<SK_Scalar1, 0>>],
       [time |-> 6000, values |-> <<0, 0>>] >>

KeyFrames ==
    LET v0 == <<0, 0>>
        v1 == [v0 EXCEPT ![2] = SK_Scalar1]
        v2 == <<SK_Scalar1, SK_Scalar1>>
        v3 == [v2 EXCEPT ![2] = 0]
        v4 == [v3 EXCEPT ![1] = 0]
    IN  << [time |-> 1000, values |-> v0],
           [time |-> 2000, values |-> v1],
           [time |-> 3000, values |-> v2],
           [time |-> 4000, values |-> v3],
           [time |-> 5000, values |-> v4] >>

fTrans == [frames |-> KeyFrames, repeat |-> kRepeatCount]

\* the key frame at or before time (time is at or after the first key frame)
FrameIndex(frames, time) ==
    CHOOSE i \in 1..Len(frames) :
        /\ frames[i].time <= time
        /\ (i = Len(frames) \/ frames[i + 1].time > time)

Lerp(a, b, num, den) == a + ((b - a) * num) \div den

\* SkInterpolator::timeToValues.  SkMSec is unsigned: for t before the first
\* key frame, t - startTime wraps to a number above every repeat end, which
\* is the frozen-at-end case.
timeToValues(trans, t) ==
    LET frames == trans.frames
        n == Len(frames)
        startTime == frames[1].time
        totalTime == frames[n].time - startTime
        frozen == t < startTime \/ t - startTime >= trans.repeat * totalTime
        offsetTime == IF frozen THEN totalTime ELSE (t - startTime) % totalTime
        time == offsetTime + startTime
        i == FrameIndex(frames, time)
    IN  IF i = n \/ frames[i].time = time
        THEN frames[i].values
        ELSE << Lerp(frames[i].values[1], frames[i + 1].values[1],
                     time - frames[i].time, frames[i + 1].time - frames[i].time),
                Lerp(frames[i].values[2], frames[i + 1].values[2],
                     time - frames[i].time, frames[i + 1].time - frames[i].time) >>

(***************************************************************************)
(* ClipDrawMatchView::onQuery, character events                            *)
(***************************************************************************)
\* '0', '1'..'9', 't', 'x'
Chars == {48} \cup (49..57) \cup {116, 120}

\* variant: a digit steps to the next geometry
CharGeom_Step(geom, uni) ==
    IF uni \in 49..57 THEN (geom + 1) % 9 ELSE geom

CharGeom(geom, uni) ==
    CASE uni = 49 -> kRect_Geometry
      [] uni = 50 -> kRRect_Geometry
      [] uni = 51 -> kCircle_Geometry
      [] uni = 52 -> kConvexPath_Geometry
      [] uni = 53 -> kConcavePath_Geometry
      [] uni = 54 -> kRectAndRect_Geometry
      [] uni = 55 -> kRectAndRRect_Geometry
      [] uni = 56 -> kRectAndConvex_Geometry
      [] uni = 57 -> kRectAndConcave_Geometry
      [] OTHER -> geom

\* variant: selecting a geometry also resets the draw order
CharClipFirst_ResetOnSelect(clipFirst, uni) ==
    IF uni = 116 THEN ~clipFirst ELSE IF uni \in 49..57 THEN TRUE ELSE clipFirst

CharClipFirst(clipFirst, uni) == IF uni = 116 THEN ~clipFirst ELSE clipFirst

\* this->inval(NULL) in each recognised case
CharInval(d, uni) == IF uni \in (49..57) \cup {116} THEN TRUE ELSE d

\* variant: the frame does not request a redraw
DrawInval_None(d) == d

\* this->inval(NULL) at the end of onDrawContent
DrawInval(d) == TRUE

\* canvas->restoreToCount(saveCount) in onDrawContent
FrameExit(cx, saveCount) == restoreToCount(cx, saveCount)

(***************************************************************************)
(* State                                                                   *)
(***************************************************************************)
VARIABLES fGeom, fClipFirst, now, dirty, canvas, lastEvent, frame

vars == <<fGeom, fClipFirst, now, dirty, canvas, lastEvent, frame>>

Event(kind, uni) == [kind |-> kind, uni |-> uni]

White == [p \in Probes |-> "white"]
Checker == [p \in Probes |-> IF (p[1] + p[2]) % 2 = 0 THEN SK_ColorRED ELSE SK_ColorBLACK]
Surfaces == {White, Checker}

NoFrame ==
    [offset |-> <<0, 0>>, geom |-> 0, clipFirst |-> FALSE, before |-> White, after |-> White,
     depthIn |-> 0, clipIn |-> {}, calls |-> << >>, passes |-> << >>]

FreshCanvas == [clip |-> DeviceRegion, stack |-> << >>]

PriorClips == {DeviceRegion, Region(RectShape(MakeWH(150 * SK_Scalar1, DeviceH * SK_Scalar1))), {}}
PriorStacks == {<< >>, << DeviceRegion >>}
PriorCanvases == {[clip |-> c, stack |-> s] : c \in PriorClips, s \in PriorStacks}

InitView ==
    /\ fGeom = kRect_Geometry
    /\ fClipFirst = TRUE
    /\ dirty = TRUE
    /\ lastEvent = Event("init", 0)
    /\ frame = NoFrame

Init ==
    /\ InitView
    /\ now = 0
    /\ canvas = FreshCanvas

\* the clock advances between events
Tick ==
    /\ now < MaxNow
    /\ now' = now + TickMs
    /\ lastEvent' = Event("tick", 0)
    /\ frame' = NoFrame
    /\ UNCHANGED <<fGeom, fClipFirst, dirty, canvas>>

\* onQuery with a title query
onQueryTitle ==
    /\ lastEvent' = Event("title", 0)
    /\ frame' = NoFrame
    /\ UNCHANGED <<fGeom, fClipFirst, now, dirty, canvas>>

\* onQuery with a character event
onQueryChar(uni) ==
    /\ fGeom' = CharGeom(fGeom, uni)
    /\ fClipFirst' = CharClipFirst(fClipFirst, uni)
    /\ dirty' = CharInval(dirty, uni)
    /\ lastEvent' = Event("char", uni)
    /\ frame' = NoFrame
    /\ UNCHANGED <<now, canvas>>

\* onDrawContent on the view's canvas, whose pixels hold surface
onDrawContent(surface) ==
    /\ dirty
    /\ LET offset == timeToValues(fTrans, now)
           cx0 == [clip |-> canvas.clip, stack |-> canvas.stack, pixels |-> surface,
                   calls |-> << >>, passes |-> << >>]
           saveCount == getSaveCount(cx0)
           c1 == save(cx0)
           c2 == drawGeometry(c1, offset, FALSE, fGeom, fClipFirst)
           c3 == FrameExit(c2, saveCount)
       IN  /\ canvas' = [clip |-> c3.clip, stack |-> c3.stack]
           /\ frame' = [offset |-> offset, geom |-> fGeom, clipFirst |-> fClipFirst,
                        before |-> surface, after |-> c3.pixels,
                        depthIn |-> saveCount, clipIn |-> canvas.clip,
                        calls |-> c3.calls, passes |-> c3.passes]
    /\ dirty' = DrawInval(FALSE)
    /\ lastEvent' = Event("draw", 0)
    /\ UNCHANGED <<fGeom, fClipFirst, now>>

DrawFrame == \E surface \in Surfaces : onDrawContent(surface)

KeyEvent == \E uni \in Chars : onQueryChar(uni)

Next ==
    \/ Tick
    \/ onQueryTitle
    \/ KeyEvent
    \/ DrawFrame

Spec == Init /\ [][Next]_vars

\* the same view drawing on a canvas that already carries a clip and saves
InitClip ==
    /\ InitView
    /\ now = 0
    /\ canvas \in PriorCanvases

SpecClip == InitClip /\ [][Next]_vars

\* The frame dispatcher serves a pending redraw request: weak fairness of
\* DrawFrame.  ENABLED <<DrawFrame>>_vars is written as the action's guard,
\* dirty (with dirty set, drawing on some surface changes the state).
DispatcherFair == ([]<>(~dirty)) \/ ([]<><<DrawFrame>>_vars)

LiveSpec == Init /\ [][Next]_vars /\ DispatcherFair

(***************************************************************************)
(* Times at which the interpolator is sampled: construction, and a window  *)
(* around the end of the last repeat.                                      *)
(***************************************************************************)
RepeatEnd == 1000 + kRepeatCount * 4000
TimeSamples == {0} \cup {RepeatEnd - 5000 + TickMs * k : k \in 0..12}

InitTime ==
    /\ InitView
    /\ now \in TimeSamples
    /\ canvas = FreshCanvas

SpecTime == InitTime /\ [][Next]_vars

(***************************************************************************)
(* Vocabulary of the properties                                            *)
(***************************************************************************)
IsDraw == lastEvent.kind = "draw"

SimpleKinds == {kRect_Geometry, kRRect_Geometry, kCircle_Geometry,
                kConvexPath_Geometry, kConcavePath_Geometry}
CompoundKinds == {kRectAndRect_Geometry, kRectAndRRect_Geometry,
                  kRectAndConvex_Geometry, kRectAndConcave_Geometry}

PassSet == {frame.passes[i] : i \in DOMAIN frame.passes}
PassesNamed(name) == {r \in PassSet : r.pass = name}
CallsOf(r) == {r.calls[i] : i \in DOMAIN r.calls}

\* the pixels a pass wrote with a colour
Painted(name, color) ==
    UNION {c.touched : c \in {d \in UNION {CallsOf(r) : r \in PassesNamed(name)} : d.color = color}}

\* the clip calls of a pass, in order
RECURSIVE ClipOps(_)
ClipOps(calls) ==
    IF calls = << >> THEN << >>
    ELSE IF Head(calls).op # "none" THEN << Head(calls) >> \o ClipOps(Tail(calls))
    ELSE ClipOps(Tail(calls))

\* the inner shape of a kind, and the outer rectangle of the compound kinds,
\* written from the geometry the slide documents
InnerShape(geom, offset) ==
    CASE geom \in {0, 5} -> RectShape(create_rect(offset))
      [] geom \in {1, 6} -> create_rrect(offset)
      [] geom = 2 -> create_circle(offset)
      [] geom \in {3, 7} -> create_convex_path(offset)
      [] geom \in {4, 8} -> create_concave_path(offset)

InnerRegion(geom, offset) == Region(InnerShape(geom, offset))

OuterBox(offset) ==
    <<kMin - 100 * SK_Scalar1 + offset[1], kMin - 100 * SK_Scalar1 + offset[2],
      kMax - 100 * SK_Scalar1 + offset[1], kMax - 100 * SK_Scalar1 + offset[2]>>

OuterRegion(offset) == {p \in Probes : InRect(OuterBox(offset), Centre(p))}

(***************************************************************************)
(* C1: every frame makes exactly two passes, one clipped and one direct,   *)
(* both with the view's geometry kind and the frame's offset; the clipped  *)
(* pass is first exactly when fClipFirst holds.                            *)
(***************************************************************************)
C1_TwoPassesInOrder ==
    IsDraw =>
        /\ Len(frame.passes) = 2
        /\ {frame.passes[1].pass, frame.passes[2].pass} = {"clipped", "normal"}
        /\ \A i \in 1..2 :
              /\ frame.passes[i].geom = fGeom
              /\ frame.passes[i].offset = timeToValues(fTrans, now)
        /\ frame.passes[1].pass = (IF fClipFirst THEN "clipped" ELSE "normal")
        /\ Cardinality({i \in DOMAIN frame.calls : frame.calls[i].color # "none"}) = 2

C1_Witness ==
    /\ IsDraw
    /\ ~fClipFirst
    /\ fGeom = kRectAndConcave_Geometry
    /\ frame.offset = <<1, 2>>
    /\ frame.passes[1].pass = "normal"

(***************************************************************************)
(* C2: the clipped pass leaves the save count and the clip as it found     *)
(* them, the direct pass runs under the clip of the frame's entry, and no  *)
(* step changes the canvas's save stack or clip.                           *)
(***************************************************************************)
PassScoped ==
    IsDraw =>
        /\ \A r \in PassesNamed("clipped") :
              r.depthOut = r.depthIn /\ r.clipOut = r.clipIn
        /\ \A r \in PassesNamed("normal") :
              r.clipIn = frame.clipIn /\ r.depthIn = frame.depthIn + 1

C2_ClipScoped == [](PassScoped) /\ [][canvas' = canvas]_vars

C2_Witness ==
    /\ IsDraw
    /\ fClipFirst
    /\ fGeom = kRectAndRRect_Geometry
    /\ canvas.clip # DeviceRegion
    /\ canvas.stack # << >>
    /\ Painted("clipped", SK_ColorRED) # {}

C4_CompoundClip ==
    (IsDraw /\ fGeom \in CompoundKinds) =>
        Painted("clipped", SK_ColorRED)
            = OuterRegion(frame.offset) \cap InnerRegion(fGeom, frame.offset)

C4_Witness ==
    /\ IsDraw
    /\ fGeom = kRectAndConvex_Geometry
    /\ frame.clipIn = {}
    /\ frame.offset = <<1, 2>>
    /\ Painted("clipped", SK_ColorRED) # {}

(***************************************************************************)
(* Offsets read at and shortly after the current time                      *)
(***************************************************************************)
SubTicks == {0, 1, TickMs \div 2, TickMs - 1}
offsetAt(t) == timeToValues(fTrans, t)
Abs(x) == IF x < 0 THEN -x ELSE x

\* over d milliseconds neither coordinate moves by more than the key frames'
\* slope allows (one unit per 1000 ms), rounding included
Continuous ==
    \A s \in SubTicks : \A d \in {1, TickMs} : \A k \in 1..2 :
        Abs(offsetAt(now + s + d)[k] - offsetAt(now + s)[k]) * 1000 < SK_Scalar1 * d + 1000

(***************************************************************************)
(* C5 as stated: at every time the offset equals the offset 4000 ms later, *)
(* and the offset makes no jump.                                           *)
(***************************************************************************)
C5_Original ==
    /\ \A s \in SubTicks : offsetAt(now + s) = offsetAt(now + s + 4000)
    /\ Continuous

(***************************************************************************)
(* C5 amended: the offset equals the offset 4000 ms later from the first   *)
(* key frame (1000 ms after construction) up to one period before the end  *)
(* of the 999th repeat; before the first key frame and from the end of the *)
(* 999th repeat on it is (0,0); and the offset makes no jump at any time.  *)
(***************************************************************************)
C5_Amended ==
    /\ \A s \in SubTicks :
          /\ (1000 <= now + s /\ now + s + 4000 <= 1000 + 999 * 4000)
                => offsetAt(now + s) = offsetAt(now + s + 4000)
          /\ (now + s < 1000 \/ now + s >= 1000 + 999 * 4000)
                => offsetAt(now + s) = <<0, 0>>
    /\ Continuous
    /\ IsDraw => frame.offset = offsetAt(now)

C5_Witness ==
    /\ IsDraw
    /\ now = 1000 + 997 * 4000 + 3500
    /\ frame.offset = <<1, 0>>
    /\ offsetAt(now + 4000) = <<1, 0>>
    /\ offsetAt(now + 8000) = <<0, 0>>

(***************************************************************************)
(* C6 as stated: a command given twice in a row leaves the state that the  *)
(* first one left, for '1'..'9' and for 't'.                               *)
(***************************************************************************)
Commands == (49..57) \cup {116}

SameCommandAgain ==
    /\ lastEvent.kind = "char"
    /\ lastEvent' = lastEvent
    /\ lastEvent.uni \in Commands

C6_Original ==
    [][SameCommandAgain => (fGeom' = fGeom /\ fClipFirst' = fClipFirst)]_vars

(***************************************************************************)
(* C6 amended: a geometry selection given twice in a row leaves the state  *)
(* that the first one left; 't' given twice in a row inverts the flag      *)
(* again, so the state is the one before the first 't'.                    *)
(***************************************************************************)
C6_Amended ==
    /\ [][(SameCommandAgain /\ lastEvent.uni \in 49..57)
              => (fGeom' = fGeom /\ fClipFirst' = fClipFirst)]_vars
    /\ [][(SameCommandAgain /\ lastEvent.uni = 116)
              => (fGeom' = fGeom /\ fClipFirst' = ~fClipFirst)]_vars
    /\ [](\A u \in 49..57 :
            /\ CharGeom(CharGeom(fGeom, u), u) = CharGeom(fGeom, u)
            /\ CharClipFirst(CharClipFirst(fClipFirst, u), u) = CharClipFirst(fClipFirst, u))
    /\ [](CharClipFirst(CharClipFirst(fClipFirst, 116), 116) = fClipFirst)

C6_Witness ==
    /\ lastEvent = Event("char", 116)
    /\ fClipFirst
    /\ fGeom = kCircle_Geometry

(***************************************************************************)
(* C7: after a frame, with clip-first every pixel the direct pass drew is  *)
(* black, with geometry-first every pixel of the clip region is red, and a *)
(* pixel in neither keeps its colour; for the rectangle at offset (0,0),   *)
(* clip-first, the pixels inside [100.5,100.5]-[299.5,299.5] are black and *)
(* the others keep their colour.                                           *)
(***************************************************************************)
\* 100.5 and 299.5 in half pixels
InSquare(p) ==
    /\ 201 <= Centre(p)[1] /\ Centre(p)[1] < 599
    /\ 201 <= Centre(p)[2] /\ Centre(p)[2] < 599

C7_FinalColour ==
    IsDraw =>
        LET drawn == InnerRegion(fGeom, frame.offset)
            clipped == IF fGeom \in CompoundKinds
                       THEN drawn \cap OuterRegion(frame.offset)
                       ELSE drawn
        IN  /\ \A p \in Probes :
                  /\ (fClipFirst /\ p \in drawn) => frame.after[p] = SK_ColorBLACK
                  /\ (~fClipFirst /\ p \in clipped) => frame.after[p] = SK_ColorRED
                  /\ p \notin (drawn \cup clipped) => frame.after[p] = frame.before[p]
            /\ (fGeom = kRect_Geometry /\ frame.offset = <<0, 0>> /\ fClipFirst) =>
                  \A p \in Probes :
                      frame.after[p] = (IF InSquare(p) THEN SK_ColorBLACK ELSE frame.before[p])

C7_Witness ==
    /\ IsDraw
    /\ fGeom = kRect_Geometry
    /\ frame.offset = <<0, 0>>
    /\ fClipFirst
    /\ frame.before = Checker
    /\ frame.after[<<150, 150>>] = SK_ColorBLACK
    /\ frame.after[<<350, 350>>] = SK_ColorRED

(***************************************************************************)
(* C8: a step that handles '1'..'9' sets fGeom to the selected kind and    *)
(* keeps fClipFirst; a step that handles 't' inverts fClipFirst and keeps  *)
(* fGeom; every other step keeps both; and every (kind, flag) pair is at   *)
(* most two commands away from every reachable state.                      *)
(***************************************************************************)
FrameCondition ==
    LET e == lastEvent'
    IN  IF e.kind = "char" /\ e.uni \in 49..57
        THEN fGeom' = e.uni - 49 /\ fClipFirst' = fClipFirst
        ELSE IF e.kind = "char" /\ e.uni = 116
        THEN fGeom' = fGeom /\ fClipFirst' = ~fClipFirst
        ELSE fGeom' = fGeom /\ fClipFirst' = fClipFirst

AllReachable ==
    \A g \in Geometry : \A b \in BOOLEAN :
        \E u1 \in Chars : \E u2 \in Chars :
            /\ CharGeom(CharGeom(fGeom, u1), u2) = g
            /\ CharClipFirst(CharClipFirst(fClipFirst, u1), u2) = b

C8_SelectionOnly == [][FrameCondition]_vars /\ [](AllReachable)

C8_Witness ==
    /\ lastEvent = Event("char", 57)
    /\ fGeom = kRectAndConcave_Geometry
    /\ ~fClipFirst

(***************************************************************************)
(* C9 as stated: the clipped pass first clips to the geometry with a       *)
(* replace op, and for the compound kinds then clips to the outer          *)
(* rectangle with an intersect op and anti-aliasing on; one clip call for  *)
(* a simple kind, two for a compound kind.                                 *)
(***************************************************************************)
C9_Original ==
    IsDraw =>
        \A r \in PassesNamed("clipped") :
            LET ops == ClipOps(r.calls)
            IN  /\ Len(ops) = (IF r.geom \in CompoundKinds THEN 2 ELSE 1)
                /\ ops[1].op = kReplace_Op
                /\ ops[1].shape = InnerShape(r.geom, r.offset)
                /\ r.geom \in CompoundKinds =>
                      /\ ops[2].op = kIntersect_Op
                      /\ ops[2].shape = RectShape(OuterBox(r.offset))
                      /\ ops[2].aa = TRUE

(***************************************************************************)
(* C9 amended: the first clip call of the clipped pass is a replace, so    *)
(* the region filled does not depend on the clip in force; for a simple    *)
(* kind it is the only clip call and clips to the geometry with the pass's *)
(* anti-alias flag; for a compound kind it clips to the outer rectangle    *)
(* with anti-aliasing on, and a second call intersects the inner geometry  *)
(* with the pass's anti-alias flag.                                        *)
(***************************************************************************)
C9_Amended ==
    IsDraw =>
        \A r \in PassesNamed("clipped") :
            LET ops == ClipOps(r.calls)
                inner == InnerShape(r.geom, r.offset)
            IN  /\ Len(ops) = (IF r.geom \in CompoundKinds THEN 2 ELSE 1)
                /\ ops[1].op = kReplace_Op
                /\ r.geom \in SimpleKinds =>
                      ops[1].shape = inner /\ ops[1].aa = r.useAA
                /\ r.geom \in CompoundKinds =>
                      /\ ops[1].shape = RectShape(OuterBox(r.offset))
                      /\ ops[1].aa = TRUE
                      /\ ops[2].op = kIntersect_Op
                      /\ ops[2].shape = inner
                      /\ ops[2].aa = r.useAA
                /\ Painted("clipped", SK_ColorRED)
                      = (IF r.geom \in CompoundKinds
                         THEN Region(inner) \cap OuterRegion(r.offset)
                         ELSE Region(inner))

C9_Witness ==
    /\ IsDraw
    /\ fGeom = kRectAndRect_Geometry
    /\ frame.clipIn # DeviceRegion
    /\ frame.clipIn # {}
    /\ \E r \in PassesNamed("clipped") :
          /\ r.useAA = FALSE
          /\ ClipOps(r.calls)[1].aa = TRUE
          /\ ClipOps(r.calls)[2].op = kIntersect_Op

(***************************************************************************)
(* C10: a handled command leaves a redraw requested, a frame leaves a      *)
(* redraw requested, a frame that directly follows a command draws the     *)
(* kind and order the command left, and with the dispatcher serving        *)
(* pending requests frames keep being rendered, one after every command.   *)
(***************************************************************************)
FrameUses(g, b) ==
    /\ \A r \in PassSet : r.geom = g
    /\ frame.passes # << >>
    /\ frame.passes[1].pass = (IF b THEN "clipped" ELSE "normal")

FrameAfterCommand ==
    (lastEvent.kind = "char" /\ IsDraw') =>
        /\ \A i \in DOMAIN frame'.passes : frame'.passes[i].geom = fGeom
        /\ frame'.passes # << >>
        /\ frame'.passes[1].pass = (IF fClipFirst THEN "clipped" ELSE "normal")

====
